---------------------------- MODULE Spec2Model ----------------------------
(***************************************************************************)
(* Model of tiktok_gradio.py: search_users (request building, the HTTP     *)
(* call, per-platform record extraction, truncation), format_results and   *)
(* the Search button handler of main.                                      *)
(*                                                                         *)
(* JSON values are tagged records: [ty |-> "null"], [ty |-> "int", n],     *)
(* [ty |-> "dict", d] (d a function from keys to values) and               *)
(* [ty |-> "list", l].  The leaves of a user object (names, counts,        *)
(* flags) are held as plain strings, integers and booleans: the code only  *)
(* copies them with dict.get.                                              *)
(***************************************************************************)
EXTENDS Integers, Sequences, FiniteSets, TLC

VARIABLES
    pc,          \* position of the running call
    caller,      \* "main" | "search_users" | "format_results" | "none"
    platform, query, api_token, max_results,   \* the arguments / form inputs
    response,    \* what requests.get did: the response it returned or the
                 \* exception it raised (NoResponse before)
    items,       \* the list the extraction loop walks
    idx,         \* next entry of items
    results,     \* search_users' local list
    ret,         \* search_users' return value
    fmt_arg,     \* the results handed to format_results
    df,          \* format_results' return value
    ui,          \* st.error / st.info / st.subheader / ... calls, in order
    requests,    \* GET requests issued, in order
    parsed,      \* response.json() was called
    invoked      \* search_users was entered

vars == <<pc, caller, platform, query, api_token, max_results, response, items,
          idx, results, ret, fmt_arg, df, ui, requests, parsed, invoked>>

-----------------------------------------------------------------------------
(* Bounds of the model *)

\* longest result list a response carries
MaxEntries == 3
\* largest max_results tried (the form allows 1..100)
MaxResults == 2

-----------------------------------------------------------------------------
(* Python values *)

None == [ty |-> "none"]
PyList(l) == [ty |-> "list", l |-> l]
EmptyDict == [k \in {} |-> 0]
JNull == [ty |-> "null"]
JInt(n) == [ty |-> "int", n |-> n]
JDict(d) == [ty |-> "dict", d |-> d]
JList(l) == [ty |-> "list", l |-> l]

\* type(v).__name__, as it appears in Python's error messages
TypeName(v) ==
    CASE v.ty = "null" -> "NoneType"
      [] v.ty = "int" -> "int"
      [] v.ty = "list" -> "list"
      [] v.ty = "dict" -> "dict"

Ok(v) == [ok |-> TRUE, v |-> v]
Raise(msg) == [ok |-> FALSE, msg |-> msg]

\* v.get(key, default): AttributeError unless v is a dict
PyGet(v, key, default) ==
    IF v.ty = "dict"
    THEN Ok(IF key \in DOMAIN v.d THEN v.d[key] ELSE default)
    ELSE Raise("'" \o TypeName(v) \o "' object has no attribute 'get'")

\* `for user_data in v`: a list yields its elements, a dict its keys (only the
\* empty dict is iterated by the modelled bodies), anything else is a TypeError
PyIter(v) ==
    CASE v.ty = "list" -> Ok(v.l)
      [] v.ty = "dict" /\ DOMAIN v.d = {} -> Ok(<<>>)
      [] v.ty \in {"null", "int"} ->
           Raise("'" \o TypeName(v) \o "' object is not iterable")

\* `key in v`
PyContains(v, key) ==
    CASE v.ty = "dict" -> Ok(key \in DOMAIN v.d)
      [] v.ty = "list" -> Ok(FALSE)
      [] OTHER -> Raise("argument of type '" \o TypeName(v) \o "' is not iterable")

\* u.get(key, default) on a user object u (a function from keys to leaves)
Field(u, key, default) == IF key \in DOMAIN u THEN u[key] ELSE default

\* a Python dict literal: its keys in insertion order and its values
PyDict(keys, val) == [keys |-> keys, val |-> val]

Range(s) == {s[i] : i \in 1..Len(s)}

-----------------------------------------------------------------------------
(* search_users: configuration and request *)

base_url == "https://ensembledata.com/apis"

Platforms == {"tiktok", "instagram", "threads"}

\* platform_configs[platform], for the query the call was given
platform_configs(p, q) ==
    CASE p = "tiktok" ->
           [endpoint |-> "/tt/user/search",
            params |-> [keyword |-> q, cursor |-> 0]]
      [] p = "instagram" ->
           [endpoint |-> "/instagram/search",
            params |-> [text |-> q]]
      [] p = "threads" ->
           [endpoint |-> "/threads/user/search",
            params |-> [name |-> q]]

\* a check that lets every platform string through
Unsupported_Never(p) == FALSE

\* `platform not in platform_configs`
Unsupported(p) == p \notin Platforms

\* {**a, **b}
Merge(a, b) ==
    [k \in DOMAIN a \cup DOMAIN b |-> IF k \in DOMAIN b THEN b[k] ELSE a[k]]

\* the token left out of the parameters
RequestParams_NoToken(p, q, token) == platform_configs(p, q).params

\* params = {**config["params"], "token": api_token}
RequestParams(p, q, token) == Merge(platform_configs(p, q).params, [token |-> token])

\* the arguments of requests.get
Request(p, q, token) ==
    [method |-> "GET",
     url |-> base_url \o platform_configs(p, q).endpoint,
     params |-> RequestParams(p, q, token)]

\* only 4xx and 5xx taken as failures
StatusError_From400(resp) == resp.status_code >= 400

\* response.status_code != 200
StatusError(resp) == resp.status_code # 200

-----------------------------------------------------------------------------
(* search_users: extraction *)

\* the list each platform's loop walks: data.get("data", {}).get("users", [])
\* for tiktok and instagram, data.get("data", []) for threads
ResponseList(p, data) ==
    IF p = "threads"
    THEN LET a == PyGet(data, "data", JList(<<>>))
         IN  IF a.ok THEN PyIter(a.v) ELSE a
    ELSE LET a == PyGet(data, "data", JDict(EmptyDict))
         IN  IF ~a.ok THEN a
             ELSE LET b == PyGet(a.v, "users", JList(<<>>))
                  IN  IF b.ok THEN PyIter(b.v) ELSE b

TikTokFields == <<"username", "nickname", "followers", "following", "likes",
                  "verified", "bio">>
InstagramFields == <<"username", "full_name", "verified", "profile_pic_url">>
ThreadsFields == <<"username", "full_name", "followers", "verified",
                   "profile_pic_url">>

\* the dict literal appended for a tiktok user_info object
TikTokRecord(user) ==
    PyDict(TikTokFields,
           [username |-> Field(user, "unique_id", ""),
            nickname |-> Field(user, "nickname", ""),
            followers |-> Field(user, "follower_count", 0),
            following |-> Field(user, "following_count", 0),
            likes |-> Field(user, "total_favorited", 0),
            verified |-> Field(user, "custom_verify", ""),
            bio |-> Field(user, "signature", "")])

\* the record without its profile_pic_url
InstagramRecord_NoPic(user) ==
    PyDict(<<"username", "full_name", "verified">>,
           [username |-> Field(user, "username", ""),
            full_name |-> Field(user, "full_name", ""),
            verified |-> Field(user, "is_verified", FALSE)])

\* the dict literal appended for an instagram user object
InstagramRecord(user) ==
    PyDict(InstagramFields,
           [username |-> Field(user, "username", ""),
            full_name |-> Field(user, "full_name", ""),
            verified |-> Field(user, "is_verified", FALSE),
            profile_pic_url |-> Field(user, "profile_pic_url", "")])

\* the dict literal appended for a threads node object
ThreadsRecord(node) ==
    PyDict(ThreadsFields,
           [username |-> Field(node, "username", ""),
            full_name |-> Field(node, "full_name", ""),
            followers |-> Field(node, "follower_count", 0),
            verified |-> Field(node, "is_verified", FALSE),
            profile_pic_url |-> Field(node, "profile_pic_url", "")])

Append1(rec) == [kind |-> "append", rec |-> rec]
Skip == [kind |-> "skip"]
Throw(msg) == [kind |-> "raise", msg |-> msg]

\* the object under the wrapper key, as the user.get(...) calls need it:
\* AttributeError unless it is a dict
UserObject(user) ==
    IF user.ty = "dict" THEN Ok(user.d)
    ELSE Raise("'" \o TypeName(user) \o "' object has no attribute 'get'")

\* one round of the tiktok loop: entries without "user_info" are passed over
TikTokEntry(user_data) ==
    LET has == PyContains(user_data, "user_info")
    IN  IF ~has.ok THEN Throw(has.msg)
        ELSE IF ~has.v THEN Skip
        ELSE LET user == UserObject(user_data.d["user_info"])
             IN  IF user.ok THEN Append1(TikTokRecord(user.v)) ELSE Throw(user.msg)

\* one round of the instagram loop
InstagramEntry(user_data) ==
    LET got == PyGet(user_data, "user", JDict(EmptyDict))
        user == UserObject(got.v)
    IN  IF ~got.ok THEN Throw(got.msg)
        ELSE IF user.ok THEN Append1(InstagramRecord(user.v)) ELSE Throw(user.msg)

\* one round of the threads loop
ThreadsEntry(user_data) ==
    LET got == PyGet(user_data, "node", JDict(EmptyDict))
        node == UserObject(got.v)
    IN  IF ~got.ok THEN Throw(got.msg)
        ELSE IF node.ok THEN Append1(ThreadsRecord(node.v)) ELSE Throw(node.msg)

\* one round of the loop of `platform`
ExtractEntry(p, user_data) ==
    CASE p = "tiktok" -> TikTokEntry(user_data)
      [] p = "instagram" -> InstagramEntry(user_data)
      [] p = "threads" -> ThreadsEntry(user_data)

\* the list returned whole
Truncate_All(list, n) == list

\* results[:max_results], for max_results >= 0
Truncate(list, n) == SubSeq(list, 1, IF n < Len(list) THEN n ELSE Len(list))

-----------------------------------------------------------------------------
(* format_results *)

DigitStr(d) ==
    CASE d = 0 -> "0" [] d = 1 -> "1" [] d = 2 -> "2" [] d = 3 -> "3"
      [] d = 4 -> "4" [] d = 5 -> "5" [] d = 6 -> "6" [] d = 7 -> "7"
      [] d = 8 -> "8" [] d = 9 -> "9"

\* str(n) / f"{n}" for n >= 0
RECURSIVE IntToStr(_)
IntToStr(n) ==
    IF n < 10 THEN DigitStr(n) ELSE IntToStr(n \div 10) \o DigitStr(n % 10)

\* three digits, zero padded
Group3(n) ==
    DigitStr(n \div 100) \o DigitStr((n \div 10) % 10) \o DigitStr(n % 10)

\* f"{x:,}" for an integer x
RECURSIVE FormatThousands(_)
FormatThousands(x) ==
    IF x < 0 THEN "-" \o FormatThousands(-x)
    ELSE IF x < 1000 THEN IntToStr(x)
    ELSE FormatThousands(x \div 1000) \o "," \o Group3(x % 1000)

NaN == [ty |-> "nan"]

\* pd.DataFrame()
EmptyTable == [columns |-> <<>>, rows |-> <<>>]

\* the keys of the records, in order of first appearance
RECURSIVE UnionKeys(_, _)
UnionKeys(recs, acc) ==
    IF recs = <<>> THEN acc
    ELSE LET fresh(k) == k \notin Range(acc)
         IN  UnionKeys(Tail(recs), acc \o SelectSeq(Head(recs).keys, fresh))

\* pd.DataFrame(results): one row per record, a column per key
DataFrame(recs) ==
    LET cols == UnionKeys(recs, <<>>)
    IN  [columns |-> cols,
         rows |-> [i \in 1..Len(recs) |->
                     [c \in Range(cols) |->
                        IF c \in DOMAIN recs[i].val THEN recs[i].val[c] ELSE NaN]]]

numeric_columns == <<"followers", "following", "likes">>

\* df[col] = df[col].apply(lambda x: f"{x:,}") for each numeric column present
FormatNumbers(t) ==
    [t EXCEPT !.rows =
        [i \in 1..Len(t.rows) |->
           [c \in Range(t.columns) |->
              IF c \in Range(numeric_columns)
              THEN FormatThousands(t.rows[i][c]) ELSE t.rows[i][c]]]]

\* column_order of the branch taken for `platform`
column_order(p) ==
    IF p = "tiktok"
    THEN <<"username", "nickname", "followers", "following", "likes", "verified",
           "bio">>
    ELSE <<"username", "full_name", "followers", "verified">>

\* df[cols]
SelectColumns(t, cols) ==
    [columns |-> cols,
     rows |-> [i \in 1..Len(t.rows) |-> [c \in Range(cols) |-> t.rows[i][c]]]]

\* df = df[list(col for col in column_order if col in df.columns)], for the
\* three known platforms; any other platform keeps df as it is
Reorder(p, t) ==
    IF p \in {"tiktok", "instagram", "threads"}
    THEN LET present(c) == c \in Range(t.columns)
         IN  SelectColumns(t, SelectSeq(column_order(p), present))
    ELSE t

\* `not results` / `if results:` for None or a list
Truthy(r) == r.ty = "list" /\ r.l # <<>>

\* None instead of an empty table
format_results_None(p, r) ==
    IF ~Truthy(r) THEN None
    ELSE Reorder(p, FormatNumbers(DataFrame(r.l)))

format_results(p, r) ==
    IF ~Truthy(r) THEN EmptyTable
    ELSE Reorder(p, FormatNumbers(DataFrame(r.l)))

\* df.to_csv(index=False), as its lines of cells: the header, then a line per
\* row (the text's quoting and line ends are not modelled)
ToCsv(t) ==
    <<t.columns>> \o
    [i \in 1..Len(t.rows) |-> [j \in 1..Len(t.columns) |-> t.rows[i][t.columns[j]]]]

-----------------------------------------------------------------------------
(* The inputs tried: form values, arguments and API responses *)

Restrict(f, K) == [k \in K \cap DOMAIN f |-> f[k]]

Wrapper(p) ==
    CASE p = "tiktok" -> "user_info" [] p = "instagram" -> "user"
      [] p = "threads" -> "node"

\* user objects with every sub-field present
FullUsers(p) ==
    CASE p = "tiktok" ->
           <<[unique_id |-> "alice", nickname |-> "Alice", follower_count |-> 1234567,
              following_count |-> 12, total_favorited |-> 1000,
              custom_verify |-> "Verified account", signature |-> "hello"],
             [unique_id |-> "bob", nickname |-> "Bob", follower_count |-> 999,
              following_count |-> 0, total_favorited |-> 45678,
              custom_verify |-> "", signature |-> "hi"]>>
      [] p = "instagram" ->
           <<[username |-> "alice", full_name |-> "Alice A", is_verified |-> TRUE,
              profile_pic_url |-> "https://cdn/alice.jpg"],
             [username |-> "bob", full_name |-> "Bob B", is_verified |-> FALSE,
              profile_pic_url |-> "https://cdn/bob.jpg"]>>
      [] p = "threads" ->
           <<[username |-> "alice", full_name |-> "Alice A", follower_count |-> 1234567,
              is_verified |-> TRUE, profile_pic_url |-> "https://cdn/alice.jpg"],
             [username |-> "bob", full_name |-> "Bob B", follower_count |-> 999,
              is_verified |-> FALSE, profile_pic_url |-> "https://cdn/bob.jpg"]>>

\* sub-fields kept in the first of the two partial user objects
SomeKeys(p) ==
    CASE p = "tiktok" -> {"unique_id", "follower_count", "total_favorited", "signature"}
      [] p = "instagram" -> {"username", "is_verified"}
      [] p = "threads" -> {"username", "follower_count", "profile_pic_url"}

\* a complete user object and two partial ones; every sub-field is missing
\* from one of them
Users(p) ==
    {FullUsers(p)[1],
     Restrict(FullUsers(p)[2], SomeKeys(p)),
     Restrict(FullUsers(p)[2], DOMAIN FullUsers(p)[2] \ SomeKeys(p))}

\* raw entries of a result list: well-formed ones, a dict without the wrapper
\* key, a null under the wrapper key, and an entry that is no dict at all
Entries(p) ==
    {JDict(Wrapper(p) :> JDict(u)) : u \in Users(p)} \cup
    {JDict(EmptyDict), JDict(Wrapper(p) :> JNull), JInt(7)}

SeqsUpTo(S, n) == UNION {[1..k -> S] : k \in 0..n}

\* parsed bodies: the platform's shape around a result list, and shapes
\* with the path missing or of another type
Bodies(p) ==
    {JList(<<>>), JDict(EmptyDict), JDict([data |-> JNull]),
     JDict([data |-> JDict(EmptyDict)])} \cup
    IF p = "threads"
    THEN {JDict([data |-> JList(l)]) : l \in SeqsUpTo(Entries(p), MaxEntries)}
    ELSE {JDict([data |-> JDict([users |-> JNull])])} \cup
         {JDict([data |-> JDict([users |-> JList(l)])]) :
             l \in SeqsUpTo(Entries(p), MaxEntries)}

\* a body of the platform's shape holding one complete entry
GoodBody(p) ==
    LET l == JList(<<JDict(Wrapper(p) :> JDict(FullUsers(p)[1]))>>)
    IN  IF p = "threads" THEN JDict([data |-> l])
        ELSE JDict([data |-> JDict([users |-> l])])

\* requests.get returned: the status, the text, and what json() gives
HttpResponse(code, text, json) ==
    [raised |-> FALSE, status_code |-> code, text |-> text, json |-> json]

\* requests.get raised
Raised(msg) == [raised |-> TRUE, msg |-> msg]

\* what requests.get can do: raise, answer another status than 200 (with a
\* body that would parse), or answer 200 with a body that parses or does not
Outcomes(p) ==
    {Raised("Connection refused"),
     HttpResponse(404, "Not Found", Ok(GoodBody(p))),
     HttpResponse(500, "Internal Server Error", Ok(GoodBody(p))),
     HttpResponse(201, "Created", Ok(GoodBody(p))),
     HttpResponse(200, "<html>", Raise("Expecting value: line 1 column 1 (char 0)"))}
    \cup {HttpResponse(200, "{...}", Ok(b)) : b \in Bodies(p)}

OutcomesOf == [p \in Platforms |-> Outcomes(p)]

\* the records search_users builds from the modelled user objects
Records(p) ==
    CASE p = "tiktok" -> {TikTokRecord(u) : u \in Users(p)}
      [] p = "instagram" -> {InstagramRecord(u) : u \in Users(p)}
      [] p = "threads" -> {ThreadsRecord(u) : u \in Users(p)}

\* arguments of a direct format_results call
FormatInputs ==
    {None} \cup
    {PyList(l) : l \in UNION {SeqsUpTo(Records(p), MaxResults) : p \in Platforms}}

-----------------------------------------------------------------------------
(* The calls *)

Error(msg) == [fn |-> "error", body |-> msg]
Info(msg) == [fn |-> "info", body |-> msg]
Spinner(msg) == [fn |-> "spinner", body |-> msg]
Subheader(msg) == [fn |-> "subheader", body |-> msg]
Dataframe(t) == [fn |-> "dataframe", data |-> t]
DownloadButton(csv, name) ==
    [fn |-> "download_button", label |-> "Download results as CSV", data |-> csv,
     file_name |-> name, mime |-> "text/csv"]

NoResponse == [ty |-> "none"]

Init ==
    /\ pc = "idle"
    /\ caller = "none"
    /\ platform = "tiktok"
    /\ query = ""
    /\ api_token = ""
    /\ max_results = 1
    /\ response = NoResponse
    /\ items = <<>>
    /\ idx = 1
    /\ results = <<>>
    /\ ret = None
    /\ fmt_arg = None
    /\ df = None
    /\ ui = <<>>
    /\ requests = <<>>
    /\ parsed = FALSE
    /\ invoked = FALSE

\* the Search button is pressed with the form's values
ClickSearch ==
    /\ pc = "idle"
    /\ \E p \in Platforms, q \in {"", "cats"}, t \in {"", "tok"}, n \in 1..MaxResults :
          /\ platform' = p
          /\ query' = q
          /\ api_token' = t
          /\ max_results' = n
    /\ caller' = "main"
    /\ pc' = "main_check"
    /\ UNCHANGED <<response, items, idx, results, ret, fmt_arg, df, ui, requests,
                   parsed, invoked>>

\* `not api_token`
MissingToken(t) == t = ""

\* the query check left out
MissingQuery_Never(q) == FALSE

\* `not search_query`
MissingQuery(q) == q = ""

\* main: the two input checks, then the call of search_users
MainCheck ==
    /\ pc = "main_check"
    /\ IF MissingToken(api_token)
       THEN /\ ui' = Append(ui, Error("Please enter your API token in the sidebar"))
            /\ pc' = "done"
            /\ UNCHANGED invoked
       ELSE IF MissingQuery(query)
       THEN /\ ui' = Append(ui, Error("Please enter a search query"))
            /\ pc' = "done"
            /\ UNCHANGED invoked
       ELSE /\ invoked' = TRUE
            /\ pc' = "su_entry"
            /\ UNCHANGED ui
    /\ UNCHANGED <<caller, platform, query, api_token, max_results, response, items,
                   idx, results, ret, fmt_arg, df, requests, parsed>>

\* search_users called by other code, with any platform string
CallSearchUsers ==
    /\ pc = "idle"
    /\ \E p \in Platforms \cup {"facebook"}, q \in {"cats", "dogs"},
          n \in 1..MaxResults :
          /\ platform' = p
          /\ query' = q
          /\ max_results' = n
    /\ api_token' = "tok"
    /\ caller' = "search_users"
    /\ invoked' = TRUE
    /\ pc' = "su_entry"
    /\ UNCHANGED <<response, items, idx, results, ret, fmt_arg, df, ui, requests,
                   parsed>>

\* an except clause that returns what was extracted so far
Except_Partial(msg) ==
    /\ ui' = Append(ui, Error("Error occurred: " \o msg))
    /\ ret' = PyList(results)
    /\ pc' = "su_return"

\* the except clause: report the message, return None
Except(msg) ==
    /\ ui' = Append(ui, Error("Error occurred: " \o msg))
    /\ ret' = None
    /\ pc' = "su_return"

\* search_users: the platform check, results = [], the spinner
SuEntry ==
    /\ pc = "su_entry"
    /\ IF Unsupported(platform)
       THEN /\ ui' = Append(ui, Error("Platform " \o platform \o " is not supported"))
            /\ ret' = None
            /\ pc' = "su_return"
            /\ UNCHANGED results
       ELSE /\ results' = <<>>
            /\ ui' = Append(ui, Spinner("Searching " \o platform \o " users..."))
            /\ pc' = "su_get"
            /\ UNCHANGED ret
    /\ UNCHANGED <<caller, platform, query, api_token, max_results, response, items,
                   idx, fmt_arg, df, requests, parsed, invoked>>

\* search_users: requests.get is called and the request goes out; the call
\* blocks in it (no timeout is passed)
SuGet ==
    /\ pc = "su_get"
    /\ requests' = Append(requests, Request(platform, query, api_token))
    /\ pc' = "su_wait"
    /\ UNCHANGED <<caller, platform, query, api_token, max_results, response, items,
                   idx, results, ret, fmt_arg, df, ui, parsed, invoked>>

\* requests.get returns a response or raises; whether and when it does is up
\* to the network and the server
SuAnswer ==
    /\ pc = "su_wait"
    /\ response' \in OutcomesOf[platform]
    /\ IF response'.raised
       THEN Except(response'.msg)
       ELSE pc' = "su_status" /\ UNCHANGED <<ui, ret>>
    /\ UNCHANGED <<caller, platform, query, api_token, max_results, items, idx,
                   results, fmt_arg, df, requests, parsed, invoked>>

\* a failed status answered by one more request
StatusFailure_Retry ==
    /\ ui' = Append(ui, Error("Error: " \o IntToStr(response.status_code)
                                \o " - " \o response.text))
    /\ ret' = None
    /\ pc' = IF Len(requests) < 2 THEN "su_get" ELSE "su_return"

\* the branch taken on another status than 200: report status and text,
\* return None
StatusFailure ==
    /\ ui' = Append(ui, Error("Error: " \o IntToStr(response.status_code)
                                \o " - " \o response.text))
    /\ ret' = None
    /\ pc' = "su_return"

\* search_users: the status check, response.json() and the path to the list
SuStatus ==
    /\ pc = "su_status"
    /\ IF StatusError(response)
       THEN StatusFailure /\ UNCHANGED <<parsed, items, idx>>
       ELSE /\ parsed' = TRUE
            /\ LET list == ResponseList(platform, response.json.v)
               IN  IF ~response.json.ok
                   THEN Except(response.json.msg) /\ UNCHANGED <<items, idx>>
                   ELSE IF ~list.ok
                   THEN Except(list.msg) /\ UNCHANGED <<items, idx>>
                   ELSE /\ items' = list.v
                        /\ idx' = 1
                        /\ pc' = "su_loop"
                        /\ UNCHANGED <<ui, ret>>
    /\ UNCHANGED <<caller, platform, query, api_token, max_results, response,
                   results, fmt_arg, df, requests, invoked>>

\* search_users: one round of the extraction loop
SuLoop ==
    /\ pc = "su_loop"
    /\ idx <= Len(items)
    /\ LET e == ExtractEntry(platform, items[idx])
       IN  IF e.kind = "raise"
           THEN Except(e.msg) /\ UNCHANGED <<results, idx>>
           ELSE /\ results' = IF e.kind = "append" THEN Append(results, e.rec)
                                                   ELSE results
                /\ idx' = idx + 1
                /\ UNCHANGED <<pc, ui, ret>>
    /\ UNCHANGED <<caller, platform, query, api_token, max_results, response, items,
                   fmt_arg, df, requests, parsed, invoked>>

\* search_users: return results[:max_results]
SuFinish ==
    /\ pc = "su_loop"
    /\ idx > Len(items)
    /\ ret' = PyList(Truncate(results, max_results))
    /\ pc' = "su_return"
    /\ UNCHANGED <<caller, platform, query, api_token, max_results, response, items,
                   idx, results, fmt_arg, df, ui, requests, parsed, invoked>>

\* the direct caller has its value
DirectReturn ==
    /\ pc = "su_return"
    /\ caller = "search_users"
    /\ pc' = "done"
    /\ UNCHANGED <<caller, platform, query, api_token, max_results, response, items,
                   idx, results, ret, fmt_arg, df, ui, requests, parsed, invoked>>

\* main: show the table and the download button, or "No results found"
MainShow ==
    /\ pc = "su_return"
    /\ caller = "main"
    /\ IF Truthy(ret)
       THEN /\ fmt_arg' = ret
            /\ df' = format_results(platform, ret)
            /\ ui' = ui \o
                 <<Subheader("Found " \o IntToStr(Len(ret.l)) \o " results"),
                   Dataframe(df'),
                   DownloadButton(ToCsv(df'), platform \o "_search_results.csv")>>
       ELSE /\ ui' = Append(ui, Info("No results found"))
            /\ UNCHANGED <<fmt_arg, df>>
    /\ pc' = "done"
    /\ UNCHANGED <<caller, platform, query, api_token, max_results, response, items,
                   idx, results, ret, requests, parsed, invoked>>

\* format_results called by other code
CallFormatResults ==
    /\ pc = "idle"
    /\ \E p \in Platforms \cup {"facebook"}, r \in FormatInputs :
          /\ platform' = p
          /\ fmt_arg' = r
          /\ df' = format_results(p, r)
    /\ caller' = "format_results"
    /\ pc' = "done"
    /\ UNCHANGED <<query, api_token, max_results, response, items, idx, results, ret,
                   ui, requests, parsed, invoked>>

\* the next script run or call starts from scratch
Rerun ==
    /\ pc = "done"
    /\ pc' = "idle"
    /\ caller' = "none"
    /\ platform' = "tiktok"
    /\ query' = ""
    /\ api_token' = ""
    /\ max_results' = 1
    /\ response' = NoResponse
    /\ items' = <<>>
    /\ idx' = 1
    /\ results' = <<>>
    /\ ret' = None
    /\ fmt_arg' = None
    /\ df' = None
    /\ ui' = <<>>
    /\ requests' = <<>>
    /\ parsed' = FALSE
    /\ invoked' = FALSE

\* the steps the running call takes by itself (plain synchronous Python)
Step ==
    \/ MainCheck
    \/ SuEntry
    \/ SuGet
    \/ SuStatus
    \/ SuLoop
    \/ SuFinish
    \/ DirectReturn
    \/ MainShow

Next ==
    ClickSearch \/ CallSearchUsers \/ CallFormatResults \/ Step \/ SuAnswer \/ Rerun

Spec == Init /\ [][Next]_vars

\* the code's own steps are taken: it is one synchronous thread.  Nothing is
\* assumed of SuAnswer: without a timeout a request that is never answered
\* leaves the call blocked in requests.get for good
FairSpec == Spec /\ WF_vars(Step)

-----------------------------------------------------------------------------
(* Properties *)

Min(a, b) == IF a < b THEN a ELSE b

Supported == platform \in {"tiktok", "instagram", "threads"}

\* search_users has returned to its caller
Returned == invoked /\ pc \in {"su_return", "done"}

\* the response is a 200 whose body parses and holds a result list
\* requests.get returned a response
Answered == response # NoResponse /\ ~response.raised

HasList ==
    /\ Answered
    /\ response.status_code = 200
    /\ response.json.ok
    /\ ResponseList(platform, response.json.v).ok

\* that result list
RawList == ResponseList(platform, response.json.v).v

\* every entry is an object, and what it holds under the wrapper key is one
WellTyped(p, l) ==
    \A i \in 1..Len(l) :
        /\ l[i].ty = "dict"
        /\ Wrapper(p) \in DOMAIN l[i].d => l[i].d[Wrapper(p)].ty = "dict"

\* the entry yields a record: any entry of instagram and threads, a tiktok
\* entry only when it has a user_info key
Yields(p, e) == p = "tiktok" => (e.ty = "dict" /\ "user_info" \in DOMAIN e.d)

YieldCount(p, l) == Cardinality({i \in 1..Len(l) : Yields(p, l[i])})

HasError(msg) == \E i \in 1..Len(ui) : ui[i].fn = "error" /\ ui[i].body = msg

\* C1 as stated: a 200 response whose result list holds M entries (all of
\* them objects) gives a list of length min(M, max_results).
C1_Original ==
    (Returned /\ HasList /\ WellTyped(platform, RawList)) =>
        /\ ret.ty = "list"
        /\ Len(ret.l) = Min(Len(RawList), max_results)

\* C1, amended: a 200 response whose result list holds well-typed entries
\* gives a list of length min(K, max_results), K the number of entries that
\* yield a record (all of them for instagram and threads, those with a
\* user_info key for tiktok); the list is the first records extracted.
C1_Truncation ==
    (Returned /\ HasList /\ WellTyped(platform, RawList)) =>
        /\ ret.ty = "list"
        /\ Len(ret.l) = Min(YieldCount(platform, RawList), max_results)
        /\ platform # "tiktok" => YieldCount(platform, RawList) = Len(RawList)
        /\ ret.l = SubSeq(results, 1, Len(ret.l))

\* a tiktok list with an entry passed over and more records than asked for
C1_Witness ==
    /\ Returned /\ HasList /\ WellTyped(platform, RawList)
    /\ platform = "tiktok"
    /\ YieldCount(platform, RawList) < Len(RawList)
    /\ YieldCount(platform, RawList) > max_results
    /\ ret.ty = "list" /\ Len(ret.l) = max_results

\* C2: a call with an unsupported platform never gets past the platform
\* check: it issues no request, reports "Platform ... is not supported" and
\* returns None.
C2_Unsupported ==
    (invoked /\ ~Supported) =>
        /\ requests = <<>>
        /\ pc \in {"su_entry", "su_return", "done"}
        /\ pc # "su_entry" =>
              /\ ret = None
              /\ Len(ui) = 1
              /\ HasError("Platform " \o platform \o " is not supported")

C2_Witness ==
    /\ pc = "done" /\ caller = "search_users" /\ platform = "facebook"
    /\ ret = None /\ Len(ui) = 1 /\ requests = <<>>

\* the message C3 expects for each status tried
StatusMessage(code) ==
    CASE code = 404 -> "Error: 404 - Not Found"
      [] code = 500 -> "Error: 500 - Internal Server Error"
      [] code = 201 -> "Error: 201 - Created"

\* C3: on any status other than 200 the body is never parsed, no record is
\* extracted, and the call returns None (normally, to its caller) after
\* reporting the status code and the body text.
C3_Status ==
    (Answered /\ response.status_code # 200) =>
        /\ pc \in {"su_status", "su_return", "done"}
        /\ ~parsed
        /\ results = <<>>
        /\ pc # "su_status" =>
              /\ ret = None
              /\ HasError(StatusMessage(response.status_code))

C3_Witness ==
    /\ pc = "su_return" /\ Answered /\ response.status_code = 404
    /\ ret = None /\ HasError("Error: 404 - Not Found") /\ ~parsed

\* C4: a search action with an empty token or an empty query ends with one
\* error before search_users is entered and without a request; a request
\* of a search action implies both inputs were non-empty.
C4_InputsChecked ==
    caller = "main" =>
        /\ ((api_token = "" \/ query = "") /\ pc # "main_check") =>
              /\ pc = "done"
              /\ ~invoked
              /\ requests = <<>>
              /\ Len(ui) = 1
              /\ HasError(IF api_token = ""
                          THEN "Please enter your API token in the sidebar"
                          ELSE "Please enter a search query")
        /\ (invoked \/ requests # <<>>) => (api_token # "" /\ query # "")

C4_Witness ==
    /\ caller = "main" /\ pc = "done" /\ api_token # "" /\ query = ""
    /\ ~invoked /\ requests = <<>> /\ Len(ui) = 1

\* requests.get raised, response.json() raised, the path to the list raised,
\* or an entry of the list is of an unexpected type
Failed ==
    /\ requests # <<>>
    /\ \/ response.raised
       \/ /\ response.status_code = 200
          /\ \/ ~response.json.ok
             \/ ~ResponseList(platform, response.json.v).ok
             \/ ~WellTyped(platform, RawList)

PythonMessages ==
    {"Error occurred: 'int' object has no attribute 'get'",
     "Error occurred: 'NoneType' object has no attribute 'get'",
     "Error occurred: 'list' object has no attribute 'get'",
     "Error occurred: 'NoneType' object is not iterable",
     "Error occurred: argument of type 'int' is not iterable"}

\* C5: when the HTTP call, the JSON parsing or the extraction raises, the
\* call still returns to its caller, with None whatever was extracted before,
\* after reporting the exception's message; nothing is displayed.
C5_NoPartial ==
    (Returned /\ Failed) =>
        /\ ret = None
        /\ df = None
        /\ IF response.raised THEN HasError("Error occurred: " \o response.msg)
           ELSE IF ~response.json.ok
           THEN HasError("Error occurred: " \o response.json.msg)
           ELSE \E m \in PythonMessages : HasError(m)

\* an exception after a record had been extracted
C5_Witness ==
    /\ Returned /\ Failed
    /\ results # <<>>
    /\ ret = None

\* C6's table: output field, sub-field of the raw user object, default
FieldTable(p) ==
    CASE p = "tiktok" ->
           <<<<"username", "unique_id", "">>, <<"nickname", "nickname", "">>,
             <<"followers", "follower_count", 0>>,
             <<"following", "following_count", 0>>,
             <<"likes", "total_favorited", 0>>,
             <<"verified", "custom_verify", "">>, <<"bio", "signature", "">>>>
      [] p = "instagram" ->
           <<<<"username", "username", "">>, <<"full_name", "full_name", "">>,
             <<"verified", "is_verified", FALSE>>,
             <<"profile_pic_url", "profile_pic_url", "">>>>
      [] p = "threads" ->
           <<<<"username", "username", "">>, <<"full_name", "full_name", "">>,
             <<"followers", "follower_count", 0>>,
             <<"verified", "is_verified", FALSE>>,
             <<"profile_pic_url", "profile_pic_url", "">>>>

FieldNames(p) == {FieldTable(p)[j][1] : j \in 1..Len(FieldTable(p))}

\* the raw user objects of the entries that yield a record, in order
SourceUsers(p, l) ==
    LET yields(e) == Yields(p, e)
        src == SelectSeq(l, yields)
    IN  [i \in 1..Len(src) |->
           IF Wrapper(p) \in DOMAIN src[i].d THEN src[i].d[Wrapper(p)].d
           ELSE EmptyDict]

\* C6: every returned record has exactly its platform's fields, each holding
\* the raw sub-field when the raw user object has it and the default (empty
\* string, zero or false) when it does not.
C6_Fields ==
    (Returned /\ HasList /\ ret.ty = "list") =>
        \A i \in 1..Len(ret.l) :
            LET rec == ret.l[i]
                user == SourceUsers(platform, RawList)[i]
            IN  /\ DOMAIN rec.val = FieldNames(platform)
                /\ Range(rec.keys) = FieldNames(platform)
                /\ Len(rec.keys) = Cardinality(FieldNames(platform))
                /\ \A j \in 1..Len(FieldTable(platform)) :
                      LET f == FieldTable(platform)[j]
                      IN  rec.val[f[1]] =
                            IF f[2] \in DOMAIN user THEN user[f[2]] ELSE f[3]

\* records built from partial user objects, and from an entry with no user
\* object at all
C6_Witness ==
    /\ Returned /\ HasList /\ ret.ty = "list"
    /\ platform = "instagram"
    /\ Len(ret.l) = 2
    /\ ret.l[1].val.username = "bob" /\ ret.l[1].val.full_name = ""
    /\ ret.l[2].val.username = "" /\ ret.l[2].val.verified = FALSE

SearchParam(p) ==
    CASE p = "tiktok" -> "keyword" [] p = "instagram" -> "text"
      [] p = "threads" -> "name"

Url(p) ==
    CASE p = "tiktok" -> "https://ensembledata.com/apis/tt/user/search"
      [] p = "instagram" -> "https://ensembledata.com/apis/instagram/search"
      [] p = "threads" -> "https://ensembledata.com/apis/threads/user/search"

\* C7 as stated: the request is a GET of the platform's URL whose
\* parameters are the search parameter and the token, and nothing else.
C7_Original ==
    \A i \in 1..Len(requests) :
        /\ requests[i].method = "GET"
        /\ requests[i].url = Url(platform)
        /\ DOMAIN requests[i].params = {SearchParam(platform), "token"}
        /\ requests[i].params[SearchParam(platform)] = query
        /\ requests[i].params["token"] = api_token

\* C7, amended: the parameters are the search parameter carrying the query,
\* the token and, for tiktok only, cursor = 0.
C7_Request ==
    \A i \in 1..Len(requests) :
        /\ requests[i].method = "GET"
        /\ requests[i].url = Url(platform)
        /\ DOMAIN requests[i].params =
              {SearchParam(platform), "token"} \cup
              (IF platform = "tiktok" THEN {"cursor"} ELSE {})
        /\ requests[i].params[SearchParam(platform)] = query
        /\ requests[i].params["token"] = api_token
        /\ platform = "tiktok" => requests[i].params["cursor"] = 0

C7_Witness ==
    /\ Len(requests) = 1 /\ platform = "tiktok" /\ query = "dogs"
    /\ requests[1].params = [keyword |-> "dogs", cursor |-> 0, token |-> "tok"]

\* C8: format_results on None or on an empty list returns the empty table,
\* whatever the platform.
C8_EmptyTable ==
    (caller = "format_results" /\ pc = "done" /\
     (fmt_arg.ty = "none" \/ (fmt_arg.ty = "list" /\ Len(fmt_arg.l) = 0))) =>
        df = [columns |-> <<>>, rows |-> <<>>]

C8_Witness ==
    /\ caller = "format_results" /\ pc = "done" /\ platform = "facebook"
    /\ fmt_arg.ty = "list" /\ Len(fmt_arg.l) = 0
    /\ df = [columns |-> <<>>, rows |-> <<>>]

\* C9 as stated: the table main gets for a non-empty list has a row per
\* record and the same set of columns as the records.
C9_Original ==
    (caller = "main" /\ pc = "done" /\ df # None) =>
        /\ Len(df.rows) = Len(fmt_arg.l)
        /\ Range(df.columns) = Range(fmt_arg.l[1].keys)

\* at most one GET per call: exactly one once the call has ended with
\* non-empty inputs (search action) and a supported platform, none otherwise
OneRequest ==
    /\ Len(requests) <= 1
    /\ (pc = "done" /\ caller = "main") =>
          Len(requests) = IF api_token # "" /\ query # "" THEN 1 ELSE 0
    /\ (pc = "done" /\ caller = "search_users") =>
          Len(requests) = IF Supported THEN 1 ELSE 0

\* C10 as stated: a call issues at most one GET, also after a failed status
\* or an exception, and a call that began always ends.
C10_Original ==
    /\ []OneRequest
    /\ (pc \notin {"idle", "done"}) ~> (pc = "done")

\* C10, amended: a call issues at most one GET, also after a failed status or
\* an exception; a call that began ends or is blocked in its one
\* requests.get, and once requests.get has returned or raised the call ends.
C10_SingleRequest ==
    /\ [](OneRequest /\ (pc = "su_wait" => Len(requests) = 1))
    /\ (pc \notin {"idle", "done"}) ~> (pc \in {"done", "su_wait"})
    /\ (pc \notin {"idle", "done"} /\ response # NoResponse) ~> (pc = "done")

\* a search action that ended after a failed status, with its one request
C10_Witness ==
    /\ pc = "done" /\ caller = "main" /\ Len(requests) = 1
    /\ Answered /\ response.status_code = 500

=============================================================================
